---- MODULE Spec2Model ----
(***************************************************************************)
(* A model of app.py: the SDF -> CSV + pharmacology merger.  One run of    *)
(* the script is one behaviour: the sidebar (preview of the pharmacology   *)
(* sheet, choice of the Parameter), the collection of the molecules, the   *)
(* SDF table, the pharmacology sheet's load, its aggregation by CAS and    *)
(* the left merge, the Parameter-focused table, and the display/export.    *)
(*                                                                         *)
(* Text is a sequence of one-character strings, so that str(), strip(),    *)
(* lower(), sorted() and " | ".join() are computed and not assumed.        *)
(* A cell is a record tagged by its Python type: None (a property an SDF   *)
(* record lacks), NaN (a blank cell of the sheet), a str or an int.        *)
(* pandas is the 1.x/2.x line the script was written for: astype(str)      *)
(* turns None into "None" and NaN into "nan".                              *)
(***************************************************************************)
EXTENDS Integers, Sequences, FiniteSets, TLC

(* ------------------------------ bounds -------------------------------- *)

\* Molecules plus data rows of the sheet in the join family of inputs.
MaxJoinInput == 4
\* Data rows of the sheet in the aggregation family of inputs.
MaxAggRows == 4
\* Data rows of the sheet in the Parameter-filter family of inputs.
MaxParamRows == 4
\* Molecules in the property-universe family of inputs.
MaxPropMols == 2

(* ------------------------------- text --------------------------------- *)

\* The characters the model uses, in code-point order.
CodePoints ==
    << " ", "-", ".", "0", "1", "2", "3", "4", "5", "6", "7", "8", "9",
       "A", "B", "C", "D", "E", "F", "G", "H", "I", "J", "K", "L", "M",
       "N", "O", "P", "Q", "R", "S", "T", "U", "V", "W", "X", "Y", "Z",
       "a", "b", "c", "d", "e", "f", "g", "h", "i", "j", "k", "l", "m",
       "n", "o", "p", "q", "r", "s", "t", "u", "v", "w", "x", "y", "z",
       "|" >>

Ord(c) == CHOOSE i \in 1..Len(CodePoints) : CodePoints[i] = c

UpperCase == << "A", "B", "C", "D", "E", "F", "G", "H", "I", "J", "K", "L", "M",
                "N", "O", "P", "Q", "R", "S", "T", "U", "V", "W", "X", "Y", "Z" >>

LowerCase == << "a", "b", "c", "d", "e", "f", "g", "h", "i", "j", "k", "l", "m",
                "n", "o", "p", "q", "r", "s", "t", "u", "v", "w", "x", "y", "z" >>

Digits == << "0", "1", "2", "3", "4", "5", "6", "7", "8", "9" >>

\* Python's str < str: lexicographic on code points, a proper prefix first.
RECURSIVE StrLess(_, _)
StrLess(a, b) ==
    IF b = << >> THEN FALSE
    ELSE IF a = << >> THEN TRUE
    ELSE IF Head(a) = Head(b) THEN StrLess(Tail(a), Tail(b))
    ELSE Ord(Head(a)) < Ord(Head(b))

\* str.lower()
lower_char(c) ==
    IF \E i \in 1..Len(UpperCase) : UpperCase[i] = c
    THEN LowerCase[CHOOSE i \in 1..Len(UpperCase) : UpperCase[i] = c]
    ELSE c

lower(s) == [i \in 1..Len(s) |-> lower_char(s[i])]

\* str.strip(): leading and trailing white space removed.
RECURSIVE lstrip(_)
lstrip(s) == IF s # << >> /\ Head(s) = " " THEN lstrip(Tail(s)) ELSE s

RECURSIVE rstrip(_)
rstrip(s) ==
    IF s # << >> /\ s[Len(s)] = " " THEN rstrip(SubSeq(s, 1, Len(s) - 1)) ELSE s

strip(s) == rstrip(lstrip(s))

\* str(n) of a non-negative int.
RECURSIVE int_str(_)
int_str(n) ==
    IF n < 10 THEN << Digits[n + 1] >>
    ELSE int_str(n \div 10) \o << Digits[(n % 10) + 1] >>

\* sep.join(parts)
RECURSIVE join(_, _)
join(sep, parts) ==
    IF parts = << >> THEN << >>
    ELSE IF Len(parts) = 1 THEN parts[1]
    ELSE parts[1] \o sep \o join(sep, Tail(parts))

(* ------------------------------- cells -------------------------------- *)

None == [t |-> "None", v |-> << >>]
NaN == [t |-> "NaN", v |-> << >>]
StrCell(s) == [t |-> "str", v |-> s]
IntCell(n) == [t |-> "int", v |-> n]

\* pandas isna(): None and NaN are both missing.
isna(v) == v.t \in {"None", "NaN"}

\* As astype_str, were a missing value of either kind cast to "nan".
astype_str_one_missing(v) ==
    IF v.t \in {"None", "NaN"} THEN << "n", "a", "n" >>
    ELSE IF v.t = "int" THEN int_str(v.v)
    ELSE v.v

\* str(v), as Series.astype(str) applies it to every element of an object column.
astype_str(v) ==
    IF v.t = "None" THEN << "N", "o", "n", "e" >>
    ELSE IF v.t = "NaN" THEN << "n", "a", "n" >>
    ELSE IF v.t = "int" THEN int_str(v.v)
    ELSE v.v

\* series.astype(str).str.strip(), per element (lines 176 and 189).
cas_norm_of(v) == StrCell(strip(astype_str(v)))

(* The literals of the script. *)
LigandCasRn == << "L", "i", "g", "a", "n", "d", " ", "C", "A", "S", " ", "R", "N" >>
ParameterCol == << "P", "a", "r", "a", "m", "e", "t", "e", "r" >>
ValueCol == << "V", "a", "l", "u", "e" >>
CasRn == << "c", "a", "s", ".", "r", "n" >>
CasIndexName == << "c", "a", "s", ".", "i", "n", "d", "e", "x", ".", "n", "a", "m", "e" >>
PipeSep == << " ", "|", " " >>

(* ----------------------- helpers on sequences ------------------------- *)

Range(seq) == {seq[i] : i \in 1..Len(seq)}

RECURSIVE Flatten(_)
Flatten(seqs) == IF seqs = << >> THEN << >> ELSE Head(seqs) \o Flatten(Tail(seqs))

\* Series.dropna()
dropna(series) == SelectSeq(series, LAMBDA v : ~isna(v))

\* Series.unique(): the distinct values, in order of first appearance.
RECURSIVE unique(_)
unique(vals) ==
    IF vals = << >> THEN << >>
    ELSE LET init == unique(SubSeq(vals, 1, Len(vals) - 1))
             last == vals[Len(vals)]
         IN  IF last \in Range(init) THEN init ELSE Append(init, last)

\* sorted(S) of a set of str, ascending.
RECURSIVE sorted(_)
sorted(S) ==
    IF S = {} THEN << >>
    ELSE LET least == CHOOSE x \in S : \A y \in S : ~StrLess(y, x)
         IN  << least >> \o sorted(S \ {least})

\* Series.sort_values() of a sequence of str (duplicates kept).
RECURSIVE sort_values(_)
sort_values(vals) ==
    IF vals = << >> THEN << >>
    ELSE LET least == CHOOSE i \in 1..Len(vals) :
                          \A j \in 1..Len(vals) : ~StrLess(vals[j], vals[i])
         IN  << vals[least] >>
             \o sort_values(SubSeq(vals, 1, least - 1) \o SubSeq(vals, least + 1, Len(vals)))

(* ------------------- load_pharmacology_excel (47-63) ------------------ *)

\* raw.index[raw.iloc[:, 0] == "Ligand CAS RN"]: the rows whose first cell is the label.
header_rows(raw) == {i \in 1..Len(raw) : raw[i][1] = StrCell(LigandCasRn)}

\* [0] of an empty index raises IndexError.
raises_IndexError(raw) == header_rows(raw) = {}

\* The frame below the first header row, that row's cells as the column labels.
load_pharmacology_excel(raw) ==
    LET header_row_idx == CHOOSE i \in header_rows(raw) : \A j \in header_rows(raw) : i <= j
    IN  [columns |-> raw[header_row_idx],
         rows |-> SubSeq(raw, header_row_idx + 1, Len(raw))]

\* "name" in df.columns
has_column(df, name) == \E c \in 1..Len(df.columns) : df.columns[c] = StrCell(name)

\* df[name]: the column as a sequence of cells.
column(df, name) ==
    LET c == CHOOSE c \in 1..Len(df.columns) : df.columns[c] = StrCell(name)
    IN  [i \in 1..Len(df.rows) |-> df.rows[i][c]]

\* astype(str) of a series.
series_astype_str(series) == [i \in 1..Len(series) |-> astype_str(series[i])]

\* Lines 73-81: the sorted distinct Parameter strings offered for selection.
param_options(pharm_preview) ==
    IF has_column(pharm_preview, ParameterCol)
    THEN unique(sort_values(series_astype_str(dropna(column(pharm_preview, ParameterCol)))))
    ELSE << >>

(* ---------------- aggregate_pharmacology_by_cas (99-119) -------------- *)

\* As agg_unique, were unique() applied before astype(str).
agg_unique_before_cast(series) ==
    LET vals == series_astype_str(unique(dropna(series)))
    IN  IF Len(vals) > 0 THEN StrCell(join(PipeSep, vals)) ELSE None

\* agg_unique (109-111)
agg_unique(series) ==
    LET vals == unique(series_astype_str(dropna(series)))
    IN  IF Len(vals) > 0 THEN StrCell(join(PipeSep, vals)) ELSE None

\* As group_keys, were the groups not sorted (groupby(sort=False)).
group_keys_unsorted(keys) == unique([i \in 1..Len(keys) |-> keys[i].v])

\* As group_keys, were the rows not grouped: one key per row, duplicates kept.
group_keys_ungrouped(keys) == sort_values([i \in 1..Len(keys) |-> keys[i].v])

\* The group keys of groupby("cas_norm", dropna=False): sort=True is the default.
group_keys(keys) == sorted({keys[i].v : i \in 1..Len(keys)})

\* The positions a boolean mask selects, ascending.
positions(mask) == SelectSeq([i \in 1..Len(mask) |-> i], LAMBDA i : mask[i])

\* groupby(...).agg(agg_unique).reset_index(): one row per key, every column aggregated.
aggregate_pharmacology_by_cas(df) ==
    LET gk == group_keys(df.cas_norm)
        members(k) == positions([i \in 1..Len(df.rows) |-> df.cas_norm[i].v = k])
        agg_row(k) ==
            [cas_norm |-> StrCell(k),
             cells |-> [c \in 1..Len(df.columns) |->
                          agg_unique([n \in 1..Len(members(k)) |-> df.rows[members(k)[n]][c]])]]
    IN  [rows |-> [g \in 1..Len(gk) |-> agg_row(gk[g])]]

(* --------------------------- DataFrame.merge -------------------------- *)

\* Two join keys match when equal; a missing key matches only a missing key.
key_eq(a, b) == IF isna(a) \/ isna(b) THEN isna(a) /\ isna(b) ELSE a = b

\* merge(how="left"): per left row in order, its matches in right order, or one
\* unmatched row (right position 0).
merge_left(left_keys, right_keys) ==
    Flatten([i \in 1..Len(left_keys) |->
        LET ms == positions([j \in 1..Len(right_keys) |-> key_eq(left_keys[i], right_keys[j])])
        IN  IF ms = << >> THEN << <<i, 0>> >> ELSE [n \in 1..Len(ms) |-> <<i, ms[n]>>]])

(* ---------------------------- main logic ------------------------------ *)

\* Line 142: the molecules of one file that parsed (the supplier yields None otherwise).
parsed_mols(up_file) == SelectSeq(up_file.mols, LAMBDA m : m # None)

\* Lines 137-145: all_mols and file_tags over the files, in upload order.
read_all_mols(files) == Flatten([f \in 1..Len(files) |-> parsed_mols(files[f])])

read_file_tags(files) ==
    Flatten([f \in 1..Len(files) |->
        [n \in 1..Len(parsed_mols(files[f])) |-> files[f].name]])

\* As collect_all_props, were the names kept in the order met (no sorted()).
collect_all_props_unsorted(mols) ==
    unique(Flatten([i \in 1..Len(mols) |-> sorted(DOMAIN mols[i].props)]))

\* Line 151: sorted({p for m in all_mols for p in m.GetPropNames()})
collect_all_props(mols) == sorted(UNION {DOMAIN mols[i].props : i \in 1..Len(mols)})

\* Lines 156-166: the row of one molecule.
sdf_row(m, idx, src_name, props) ==
    [ID |-> idx,
     SourceFile |-> src_name,
     SMILES |-> m.smiles,
     props |-> [p \in Range(props) |->
                  IF p \in DOMAIN m.props THEN StrCell(m.props[p]) ELSE None]]

\* Lines 154-170 and 175-178: the rows, then the cas_norm column.
has_cas_rn(props) == CasRn \in Range(props)

sdf_cas_norm(row, props) ==
    IF has_cas_rn(props) THEN cas_norm_of(row.props[CasRn]) ELSE None

build_sdf_df(mols, tags, props) ==
    [rows |-> [i \in 1..Len(mols) |->
        LET row == sdf_row(mols[i], i, tags[i], props)
        IN  [rec |-> row, cas_norm |-> sdf_cas_norm(row, props)]]]

\* Line 181: merged_full_df = sdf_df.copy(), no pharmacology column yet.
sdf_copy(df) ==
    [pharm_columns |-> << >>,
     rows |-> [i \in 1..Len(df.rows) |->
                 [rec |-> df.rows[i].rec, cas_norm |-> df.rows[i].cas_norm, pharm |-> << >>]]]

\* Line 189: the cas_norm column of the pharmacology frame.
with_cas_norm(pharm) ==
    [columns |-> pharm.columns,
     rows |-> pharm.rows,
     cas_norm |-> [i \in 1..Len(pharm.rows) |-> cas_norm_of(column(pharm, LigandCasRn)[i])]]

\* Lines 194-199: merged_full_df.merge(pharm_agg, on="cas_norm", how="left").
merge_full(df, pharm, agg) ==
    LET pairs == merge_left([i \in 1..Len(df.rows) |-> df.rows[i].cas_norm],
                            [g \in 1..Len(agg.rows) |-> agg.rows[g].cas_norm])
    IN  [pharm_columns |-> pharm.columns,
         rows |-> [n \in 1..Len(pairs) |->
                     [rec |-> df.rows[pairs[n][1]].rec,
                      cas_norm |-> df.rows[pairs[n][1]].cas_norm,
                      pharm |-> IF pairs[n][2] = 0
                                THEN [c \in 1..Len(pharm.columns) |-> NaN]
                                ELSE agg.rows[pairs[n][2]].cells]]]

\* As param_mask, were the comparison case-sensitive.
param_mask_case_sensitive(pharm, selected) ==
    LET param_series == series_astype_str(column(pharm, ParameterCol))
    IN  [i \in 1..Len(param_series) |-> param_series[i] = selected.v]

\* Lines 212-213: the mask of the rows whose Parameter is the selected one.
param_mask(pharm, selected) ==
    LET param_series == series_astype_str(column(pharm, ParameterCol))
    IN  [i \in 1..Len(param_series) |-> lower(param_series[i]) = lower(selected.v)]

\* Line 215: the positions of pharm_df[mask].
pharm_param_rows(pharm, selected) == positions(param_mask(pharm, selected))

\* Lines 219-222: the base columns sdf_df lacks are added, all None.
with_base_cols(df) ==
    [rows |-> [i \in 1..Len(df.rows) |->
        [rec |-> [df.rows[i].rec EXCEPT !.props =
                     [p \in DOMAIN df.rows[i].rec.props \cup {CasIndexName, CasRn} |->
                         IF p \in DOMAIN df.rows[i].rec.props
                         THEN df.rows[i].rec.props[p] ELSE None]],
         cas_norm |-> df.rows[i].cas_norm]]]

\* As param_table, were the rows without Parameter or Value kept.
param_table_unfiltered(df, pharm, sel) ==
    LET pairs == merge_left([i \in 1..Len(df.rows) |-> df.rows[i].cas_norm],
                            [n \in 1..Len(sel) |-> pharm.cas_norm[sel[n]]])
        cell(j, name) == IF j = 0 THEN NaN ELSE column(pharm, name)[sel[j]]
    IN  [n \in 1..Len(pairs) |->
            [SMILES |-> df.rows[pairs[n][1]].rec.SMILES,
             cas_index_name |-> df.rows[pairs[n][1]].rec.props[CasIndexName],
             cas_rn |-> df.rows[pairs[n][1]].rec.props[CasRn],
             Parameter |-> cell(pairs[n][2], ParameterCol),
             Value |-> cell(pairs[n][2], ValueCol)]]

\* Lines 224-237: the ligand columns left-merged with the selected rows, the helper
\* dropped, the rows without Parameter or Value removed.
param_table(df, pharm, sel) ==
    LET pairs == merge_left([i \in 1..Len(df.rows) |-> df.rows[i].cas_norm],
                            [n \in 1..Len(sel) |-> pharm.cas_norm[sel[n]]])
        cell(j, name) == IF j = 0 THEN NaN ELSE column(pharm, name)[sel[j]]
        joined == [n \in 1..Len(pairs) |->
                     [SMILES |-> df.rows[pairs[n][1]].rec.SMILES,
                      cas_index_name |-> df.rows[pairs[n][1]].rec.props[CasIndexName],
                      cas_rn |-> df.rows[pairs[n][1]].rec.props[CasRn],
                      Parameter |-> cell(pairs[n][2], ParameterCol),
                      Value |-> cell(pairs[n][2], ValueCol)]]
    IN  SelectSeq(joined, LAMBDA r : ~isna(r.Parameter) /\ ~isna(r.Value))

(* ------------------------------ inputs -------------------------------- *)

Cas50 == << "5", "0", "-", "0", "0", "-", "0" >>
Cas64 == << "6", "4", "-", "1", "7", "-", "5" >>
IC50 == << "I", "C", "5", "0" >>
Ic50 == << "I", "c", "5", "0" >>
ic50 == << "i", "c", "5", "0" >>
IC50ratio == << "I", "C", "5", "0", " ", "r", "a", "t", "i", "o" >>
MIC == << "M", "I", "C" >>
UnitsCol == << "U", "n", "i", "t", "s" >>
MW == << "M", "W" >>
Smiles == << "C", "=", "O" >>

SeqsUpTo(S, n) == UNION {[1..k -> S] : k \in 0..n}

\* A molecule of an SDF file: its properties and its SMILES (None: MolToSmiles raises).
\* None in place of a molecule is a record the supplier could not parse.
Mol(props, smiles) == [props |-> props, smiles |-> smiles]

JoinMols ==
    { Mol((CasRn :> << " " >> \o Cas50) @@ (CasIndexName :> << "F" >>), StrCell(Smiles)),
      Mol((CasRn :> Cas64), StrCell(Smiles)),
      Mol((CasIndexName :> << "E" >>), None),
      None }

JoinRows ==
    { << StrCell(Cas50), StrCell(IC50), IntCell(10) >>,
      << StrCell(Cas50 \o << " " >>), StrCell(IC50), IntCell(12) >>,
      << NaN, StrCell(IC50), IntCell(10) >>,
      << StrCell(Cas64), StrCell(MIC), NaN >> }

FullHeader == << StrCell(LigandCasRn), StrCell(ParameterCol), StrCell(ValueCol) >>
NoValueHeader == << StrCell(LigandCasRn), StrCell(ParameterCol), StrCell(UnitsCol) >>
NoParameterHeader == << StrCell(LigandCasRn), StrCell(UnitsCol), StrCell(ValueCol) >>
TitleRow == << StrCell(<< "D", "a", "t", "a" >>), NaN, NaN >>

\* The raw grids read_excel(header=None) returns for the data rows `rows`: a header
\* row under a title row, a header row on top, or no header row at all.
Sheets(rows) ==
    { << TitleRow, FullHeader >> \o rows,
      << NoValueHeader >> \o rows,
      << NoParameterHeader >> \o rows,
      << TitleRow >> \o rows }

\* The uploads of a list of molecules: one file, or two files split after the first.
Uploads(mols) ==
    { << [name |-> "a.sdf", mols |-> mols] >> }
    \cup (IF Len(mols) >= 2
          THEN { << [name |-> "a.sdf", mols |-> SubSeq(mols, 1, 1)],
                    [name |-> "b.sdf", mols |-> SubSeq(mols, 2, Len(mols))] >> }
          ELSE {})

OneMol == << Mol((CasRn :> Cas50) @@ (CasIndexName :> << "F" >>), StrCell(Smiles)) >>

\* The uploaded sheet: the grid read_excel(header=None) returns for it.
File(raw) == [raw |-> raw]

\* Join family: few molecules in one file, few rows, every shape of sheet, or no sheet.
JoinInput(files, sheet) ==
    \E ms \in SeqsUpTo(JoinMols, MaxJoinInput) :
        /\ files = << [name |-> "a.sdf", mols |-> ms] >>
        /\ \/ sheet = None
           \/ \E rs \in SeqsUpTo(JoinRows, MaxJoinInput - Len(ms)) :
                 \E raw \in Sheets(rs) : sheet = File(raw)

\* No SDF file uploaded.
NoUpload(files, sheet) ==
    /\ files = << >>
    /\ \/ sheet = None
       \/ sheet = File(<< FullHeader >>)

\* Aggregation family: one molecule, rows of two CAS numbers with repeated, missing
\* and mixed-type values.
AggRows ==
    {<< StrCell(Cas64), StrCell(IC50), v >> :
        v \in {NaN, StrCell(<< "5" >>), IntCell(5), StrCell(<< "7" >>)}}
    \cup {<< StrCell(Cas50), StrCell(IC50), v >> : v \in {NaN, StrCell(<< "7" >>)}}

AggInput(files, sheet) ==
    /\ files = << [name |-> "a.sdf", mols |-> OneMol] >>
    /\ \E rs \in SeqsUpTo(AggRows, MaxAggRows) : sheet = File(<< FullHeader >> \o rs)

\* Parameter-filter family: one molecule, rows of one CAS number with Parameters that
\* differ in case, in length, or are blank.
ParamRows ==
    {<< StrCell(Cas50), q, IntCell(10) >> :
        q \in {NaN, StrCell(IC50), StrCell(Ic50), StrCell(ic50), StrCell(IC50ratio), StrCell(MIC)}}

ParamInput(files, sheet) ==
    /\ files = << [name |-> "a.sdf", mols |-> OneMol] >>
    /\ \E rs \in SeqsUpTo(ParamRows, MaxParamRows) : sheet = File(<< FullHeader >> \o rs)

\* Property-universe family: molecules carrying any subset of three properties, in one
\* file or two.
PropMols ==
    {Mol([p \in names |-> << "v" >>], StrCell(Smiles)) : names \in SUBSET {CasRn, CasIndexName, MW}}

PropInput(files, sheet) ==
    /\ \E ms \in SeqsUpTo(PropMols, MaxPropMols) : files \in Uploads(ms)
    /\ sheet = None

(* ------------------------------- state -------------------------------- *)

VARIABLES
    uploaded_sdf_files,   \* the SDF uploads: a sequence of [name, mols]
    uploaded_pharm_file,  \* the sheet as read_excel(header=None) returns it, or None
    pc,                   \* the script's position
    status,               \* the st.* messages emitted so far
    pharm_param_options,  \* line 67, 74
    selected_param,       \* line 66, 88
    all_mols,             \* line 124
    file_tags,            \* line 125
    all_props,            \* line 151
    sdf_df,               \* line 170
    pharm_df,             \* line 186
    pharm_agg,            \* line 192
    pharm_param,          \* line 215: the index labels of pharm_df[mask]
    merged_full_df,       \* line 181, 194
    param_df_export,      \* line 182, 224
    shown_full,           \* the table of lines 256-267, None until shown
    shown_param           \* the table of lines 270-281, None until shown

vars == << uploaded_sdf_files, uploaded_pharm_file, pc, status, pharm_param_options,
           selected_param, all_mols, file_tags, all_props, sdf_df, pharm_df, pharm_agg,
           pharm_param, merged_full_df, param_df_export, shown_full, shown_param >>

Init ==
    /\ \/ JoinInput(uploaded_sdf_files, uploaded_pharm_file)
       \/ NoUpload(uploaded_sdf_files, uploaded_pharm_file)
       \/ AggInput(uploaded_sdf_files, uploaded_pharm_file)
       \/ ParamInput(uploaded_sdf_files, uploaded_pharm_file)
       \/ PropInput(uploaded_sdf_files, uploaded_pharm_file)
    /\ pc = "sidebar"
    /\ status = {}
    /\ pharm_param_options = << >>
    /\ selected_param = None
    /\ all_mols = << >>
    /\ file_tags = << >>
    /\ all_props = << >>
    /\ sdf_df = None
    /\ pharm_df = None
    /\ pharm_agg = None
    /\ pharm_param = << >>
    /\ merged_full_df = None
    /\ param_df_export = None
    /\ shown_full = None
    /\ shown_param = None

(* ------------------------------ actions ------------------------------- *)

\* Lines 69-83: the options, an exception of the load caught and reported.
sidebar_options ==
    IF uploaded_pharm_file = None \/ raises_IndexError(uploaded_pharm_file.raw)
    THEN << >>
    ELSE param_options(load_pharmacology_excel(uploaded_pharm_file.raw))

\* Lines 66-95 and 123, 283-284: the sidebar; the selectbox returns one of the options.
Sidebar ==
    /\ pc = "sidebar"
    /\ pharm_param_options' = sidebar_options
    /\ \E choice \in (IF sidebar_options = << >> THEN {None}
                      ELSE {StrCell(o) : o \in Range(sidebar_options)}) :
          selected_param' = choice
    /\ status' = status
          \cup (IF uploaded_pharm_file # None /\ raises_IndexError(uploaded_pharm_file.raw)
                THEN {"sidebar_warning_could_not_read"} ELSE {})
          \cup (IF sidebar_options = << >> THEN {"sidebar_info_upload_pharmacology"} ELSE {})
          \cup (IF uploaded_sdf_files = << >> THEN {"info_please_upload"} ELSE {})
    /\ pc' = IF uploaded_sdf_files = << >> THEN "done" ELSE "read"
    /\ UNCHANGED << uploaded_sdf_files, uploaded_pharm_file, all_mols, file_tags, all_props,
                    sdf_df, pharm_df, pharm_agg, pharm_param, merged_full_df,
                    param_df_export, shown_full, shown_param >>

\* Lines 124-148: the molecules of every file; none at all is reported and ends the run.
ReadMolecules ==
    /\ pc = "read"
    /\ all_mols' = read_all_mols(uploaded_sdf_files)
    /\ file_tags' = read_file_tags(uploaded_sdf_files)
    /\ IF read_all_mols(uploaded_sdf_files) = << >>
       THEN /\ status' = status \cup {"error_no_valid_molecules"}
            /\ pc' = "done"
       ELSE /\ status' = status
            /\ pc' = "build"
    /\ UNCHANGED << uploaded_sdf_files, uploaded_pharm_file, pharm_param_options,
                    selected_param, all_props, sdf_df, pharm_df, pharm_agg, pharm_param,
                    merged_full_df, param_df_export, shown_full, shown_param >>

\* Lines 151-182: the property universe, the SDF table, cas_norm, the copy.
BuildSdfTable ==
    /\ pc = "build"
    /\ all_props' = collect_all_props(all_mols)
    /\ sdf_df' = build_sdf_df(all_mols, file_tags, all_props')
    /\ status' = status \cup {"success_parsed"}
          \cup (IF has_cas_rn(all_props') THEN {} ELSE {"warning_cas_rn_not_found"})
    /\ merged_full_df' = sdf_copy(sdf_df')
    /\ param_df_export' = None
    /\ pc' = "pharm"
    /\ UNCHANGED << uploaded_sdf_files, uploaded_pharm_file, pharm_param_options,
                    selected_param, all_mols, file_tags, pharm_df, pharm_agg, pharm_param,
                    shown_full, shown_param >>

\* Lines 185-207 and 252-253: the sheet loaded, aggregated by CAS and merged.  The load
\* of line 186 is outside any try: its IndexError ends the run.
MergePharmacology ==
    /\ pc = "pharm"
    /\ IF uploaded_pharm_file = None
       THEN /\ status' = status \cup {"info_no_pharmacology_file"}
            /\ pc' = "show"
            /\ UNCHANGED << pharm_df, pharm_agg, merged_full_df >>
       ELSE IF raises_IndexError(uploaded_pharm_file.raw)
       THEN /\ status' = status \cup {"uncaught_IndexError"}
            /\ pc' = "crashed"
            /\ UNCHANGED << pharm_df, pharm_agg, merged_full_df >>
       ELSE /\ pharm_df' = with_cas_norm(load_pharmacology_excel(uploaded_pharm_file.raw))
            /\ pharm_agg' = aggregate_pharmacology_by_cas(pharm_df')
            /\ merged_full_df' = merge_full(sdf_df, pharm_df', pharm_agg')
            /\ status' = status \cup {"info_pharmacology_merged"}
            /\ pc' = "param"
    /\ UNCHANGED << uploaded_sdf_files, uploaded_pharm_file, pharm_param_options,
                    selected_param, all_mols, file_tags, all_props, sdf_df, pharm_param,
                    param_df_export, shown_full, shown_param >>

\* Lines 210-251: the Parameter-focused table.
ParameterTable ==
    /\ pc = "param"
    /\ IF selected_param # None /\ selected_param.v # << >>
          /\ has_column(pharm_df, ParameterCol) /\ has_column(pharm_df, ValueCol)
       THEN /\ pharm_param' = pharm_param_rows(pharm_df, selected_param)
            /\ IF pharm_param' # << >>
               THEN /\ sdf_df' = with_base_cols(sdf_df)
                    /\ param_df_export' = [rows |-> param_table(sdf_df', pharm_df, pharm_param')]
                    /\ status' = status \cup {"success_param_table_created"}
               ELSE /\ status' = status \cup {"warning_no_rows_with_parameter"}
                    /\ UNCHANGED << sdf_df, param_df_export >>
       ELSE IF selected_param = None \/ selected_param.v = << >>
       THEN /\ status' = status \cup {"warning_no_parameter_selected"}
            /\ UNCHANGED << sdf_df, pharm_param, param_df_export >>
       ELSE /\ status' = status
                  \cup (IF ~has_column(pharm_df, ParameterCol)
                        THEN {"warning_parameter_column_not_found"} ELSE {})
            /\ UNCHANGED << sdf_df, pharm_param, param_df_export >>
    /\ pc' = "show"
    /\ UNCHANGED << uploaded_sdf_files, uploaded_pharm_file, pharm_param_options,
                    selected_param, all_mols, file_tags, all_props, pharm_df, pharm_agg,
                    merged_full_df, shown_full, shown_param >>

\* Lines 256-281: the tables shown and offered for download.
ShowTables ==
    /\ pc = "show"
    /\ shown_full' = merged_full_df
    /\ shown_param' = param_df_export
    /\ pc' = "done"
    /\ UNCHANGED << uploaded_sdf_files, uploaded_pharm_file, status, pharm_param_options,
                    selected_param, all_mols, file_tags, all_props, sdf_df, pharm_df,
                    pharm_agg, pharm_param, merged_full_df, param_df_export >>

Next ==
    \/ Sidebar
    \/ ReadMolecules
    \/ BuildSdfTable
    \/ MergePharmacology
    \/ ParameterTable
    \/ ShowTables

Spec == Init /\ [][Next]_vars

(* ------------------------------- claims ------------------------------- *)

\* The run got past the collection of the molecules with at least one of them.
HasRecords == pc \in {"pharm", "param", "show", "done", "crashed"}

\* The sheet was loaded (its header row found) and merged.
SheetMerged == pc \in {"param", "show", "done"} /\ pharm_df # None

\* The pharmacology rows whose JoinKey is that of ligand l.
MatchingRows(l) ==
    {i \in 1..Len(pharm_df.rows) : key_eq(sdf_df.rows[l].cas_norm, pharm_df.cas_norm[i])}

\* C1: the full merged table has exactly one row per collected record, in record order,
\* whether there is no sheet or a ligand's JoinKey matches zero, one or many rows of it.
C1_LeftJoinCardinality ==
    /\ merged_full_df # None =>
          /\ Len(merged_full_df.rows) = Len(all_mols)
          /\ \A i \in 1..Len(merged_full_df.rows) : merged_full_df.rows[i].rec.ID = i
    /\ shown_full # None => Len(shown_full.rows) = Len(all_mols)

\* C1's case: the table is shown, one ligand matches several rows of the sheet and
\* another matches none.
C1_Witness ==
    /\ pc = "done"
    /\ SheetMerged
    /\ shown_full # None
    /\ \E l \in 1..Len(sdf_df.rows) : Cardinality(MatchingRows(l)) >= 2
    /\ \E l \in 1..Len(sdf_df.rows) : MatchingRows(l) = {}

\* C2: a sheet without a "Ligand CAS RN" cell in its first column does not crash the
\* run: the failure is reported and the full table is shown as it is without a sheet.
C2_HeaderNotFoundDegrades ==
    (/\ pc \in {"done", "crashed"}
     /\ all_mols # << >>
     /\ uploaded_pharm_file # None
     /\ raises_IndexError(uploaded_pharm_file.raw))
    => /\ pc = "done"
       /\ "sidebar_warning_could_not_read" \in status
       /\ shown_full = sdf_copy(sdf_df)

\* The distinct strings of vals in order of first occurrence, stated position by position.
FirstOccurrences(vals) ==
    LET keep == {i \in 1..Len(vals) : \A j \in 1..(i - 1) : vals[j] # vals[i]}
    IN  [n \in 1..Cardinality(keep) |->
            vals[CHOOSE i \in keep : Cardinality({j \in keep : j < i}) = n - 1]]

\* The strings of parts with " | " between neighbours, built from the left.
RECURSIVE PipeJoined(_)
PipeJoined(parts) ==
    IF Len(parts) = 1 THEN parts[1]
    ELSE PipeJoined(SubSeq(parts, 1, Len(parts) - 1))
            \o << " ", "|", " " >> \o parts[Len(parts)]

\* The string-cast non-null cells of column c over the rows of JoinKey k, in row order.
GroupValues(k, c) ==
    LET rows == {i \in 1..Len(pharm_df.rows) : pharm_df.cas_norm[i] = k}
        live == {i \in rows : pharm_df.rows[i][c].t \notin {"None", "NaN"}}
    IN  [n \in 1..Cardinality(live) |->
            astype_str(pharm_df.rows[CHOOSE i \in live :
                                        Cardinality({j \in live : j < i}) = n - 1][c])]

\* C3: every aggregated cell is the " | "-joined distinct non-null string-cast values of
\* its group and column in order of first occurrence, and null when there is none;
\* ["5", "5", "7", null] gives "5 | 7".
C3_AggregationDistinct ==
    /\ SheetMerged =>
          \A g \in 1..Len(pharm_agg.rows) : \A c \in 1..Len(pharm_df.columns) :
              LET d == FirstOccurrences(GroupValues(pharm_agg.rows[g].cas_norm, c))
              IN  pharm_agg.rows[g].cells[c] =
                      IF d = << >> THEN None ELSE StrCell(PipeJoined(d))
    /\ agg_unique(<< StrCell(<< "5" >>), StrCell(<< "5" >>), StrCell(<< "7" >>), NaN >>)
          = StrCell(<< "5", " ", "|", " ", "7" >>)
    /\ agg_unique(<< NaN >>) = None

\* C3's case: a group whose Value cells repeat a string, once as a number, hold a second
\* value and a blank, next to a group whose Value cells are all blank.
C3_Witness ==
    /\ SheetMerged
    /\ Len(pharm_df.columns) = 3
    /\ \E g \in 1..Len(pharm_agg.rows) :
          /\ pharm_agg.rows[g].cells[3] = StrCell(<< "5", " ", "|", " ", "7" >>)
          /\ Cardinality({i \in 1..Len(pharm_df.rows) :
                            /\ pharm_df.cas_norm[i] = pharm_agg.rows[g].cas_norm
                            /\ astype_str(pharm_df.rows[i][3]) = << "5" >>}) >= 2
    /\ \E g \in 1..Len(pharm_agg.rows) : pharm_agg.rows[g].cells[3] = None

\* The rows of the sheet that pass the Parameter filter and have Parameter and Value.
SurvivingRows ==
    {i \in Range(pharm_param) :
        /\ ~isna(column(pharm_df, ParameterCol)[i])
        /\ ~isna(column(pharm_df, ValueCol)[i])}

\* The (ligand, surviving row) pairs of equal JoinKey.
MatchedPairs ==
    {p \in (1..Len(sdf_df.rows)) \X SurvivingRows :
        /\ ~isna(sdf_df.rows[p[1]].cas_norm)
        /\ sdf_df.rows[p[1]].cas_norm = pharm_df.cas_norm[p[2]]}

\* The output row of a pair.
PairRow(p) ==
    [SMILES |-> sdf_df.rows[p[1]].rec.SMILES,
     cas_index_name |-> sdf_df.rows[p[1]].rec.props[CasIndexName],
     cas_rn |-> sdf_df.rows[p[1]].rec.props[CasRn],
     Parameter |-> column(pharm_df, ParameterCol)[p[2]],
     Value |-> column(pharm_df, ValueCol)[p[2]]]

SameLetter(a, b) ==
    \/ a = b
    \/ \E n \in 1..Len(UpperCase) : {a, b} = {UpperCase[n], LowerCase[n]}

\* Two strings equal in full when case is ignored.
EqualIgnoringCase(a, b) ==
    /\ Len(a) = Len(b)
    /\ \A k \in 1..Len(a) : SameLetter(a[k], b[k])

\* The filter of line 210 was applied.
FilterApplied ==
    /\ pc \in {"show", "done"}
    /\ pharm_df # None
    /\ selected_param # None
    /\ selected_param.v # << >>
    /\ has_column(pharm_df, ParameterCol)
    /\ has_column(pharm_df, ValueCol)

\* C5: the filter selects a row exactly when its string-cast Parameter equals the target
\* in full, case ignored: "ic50" selects "IC50" and "Ic50", not "IC50 ratio" or "MIC".
C5_FilterCaseInsensitiveExact ==
    FilterApplied =>
        \A i \in 1..Len(pharm_df.rows) :
            (i \in Range(pharm_param))
                <=> EqualIgnoringCase(astype_str(column(pharm_df, ParameterCol)[i]),
                                      selected_param.v)

\* C5's case: the target is "ic50"; rows "IC50" and "Ic50" are selected and a row
\* "IC50 ratio" or "MIC" is not.
C5_Witness ==
    /\ FilterApplied
    /\ selected_param = StrCell(ic50)
    /\ \E i \in Range(pharm_param) : column(pharm_df, ParameterCol)[i] = StrCell(IC50)
    /\ \E i \in Range(pharm_param) : column(pharm_df, ParameterCol)[i] = StrCell(Ic50)
    /\ \E i \in 1..Len(pharm_df.rows) :
          /\ i \notin Range(pharm_param)
          /\ column(pharm_df, ParameterCol)[i] \in {StrCell(IC50ratio), StrCell(MIC)}

\* The property names the collected molecules carry.
PropertyUniverse == UNION {DOMAIN all_mols[i].props : i \in 1..Len(all_mols)}

\* The rows of the SDF table as built, before line 222 pads sdf_df for the projection.
RecordRows ==
    IF merged_full_df # None THEN [i \in 1..Len(merged_full_df.rows) |-> merged_full_df.rows[i].rec]
    ELSE << >>

\* C6: all_props is the universe in ascending code-point order, and every row has
\* exactly the universe as its property columns, None where its record lacks one.
C6_ColumnUniverseTotal ==
    HasRecords =>
        /\ Range(all_props) = PropertyUniverse
        /\ \A i \in 1..Len(all_props) : \A j \in 1..Len(all_props) :
              i < j => StrLess(all_props[i], all_props[j])
        /\ Len(RecordRows) = Len(all_mols)
        /\ \A i \in 1..Len(RecordRows) :
              /\ DOMAIN RecordRows[i].props = PropertyUniverse
              /\ \A p \in PropertyUniverse :
                    RecordRows[i].props[p] =
                        IF p \in DOMAIN all_mols[i].props
                        THEN StrCell(all_mols[i].props[p]) ELSE None
        /\ pc = "pharm" => \A i \in 1..Len(sdf_df.rows) : sdf_df.rows[i].rec = RecordRows[i]

\* C6's case: the first record carries "cas.rn" only and a later one "MW" and
\* "cas.index.name": the universe is sorted against the order met, with None cells.
C6_Witness ==
    /\ pc = "done"
    /\ shown_full # None
    /\ all_props = << MW, CasIndexName, CasRn >>
    /\ DOMAIN all_mols[1].props = {CasRn}
    /\ \E i \in 1..Len(shown_full.rows) : shown_full.rows[i].rec.props[CasRn] = None

\* s is raw without its leading and trailing spaces.
Trimmed(raw, s) ==
    /\ s = << >> \/ (s[1] # " " /\ s[Len(s)] # " ")
    /\ \E a \in 0..Len(raw) : \E b \in 0..Len(raw) :
          /\ a + Len(s) + b = Len(raw)
          /\ \A k \in 1..Len(raw) :
                raw[k] = IF k <= a \/ k > a + Len(s) THEN " " ELSE s[k - a]

\* The ligands whose record lacks "cas.rn" while other records carry it.
LigandsMissingId ==
    {l \in 1..Len(all_mols) : CasRn \in PropertyUniverse /\ CasRn \notin DOMAIN all_mols[l].props}

\* The rows of the sheet whose identifier cell is blank.
RowsBlankId == {i \in 1..Len(pharm_df.rows) : column(pharm_df, LigandCasRn)[i] = NaN}

\* The aggregated cells merged into ligand l's row when the sheet has rows of JoinKey k.
CellsOfGroup(k) ==
    LET g == CHOOSE g \in 1..Len(pharm_agg.rows) : pharm_agg.rows[g].cas_norm = k
    IN  pharm_agg.rows[g].cells

\* C7 as claimed: a record with a missing identifier and a row of the sheet with a blank
\* identifier get the same JoinKey and are matched in the full merged table.
C7_MissingIdentifiersMatch ==
    SheetMerged =>
        \A l \in LigandsMissingId : \A i \in RowsBlankId :
            /\ sdf_df.rows[l].cas_norm = pharm_df.cas_norm[i]
            /\ merged_full_df.rows[l].pharm = CellsOfGroup(pharm_df.cas_norm[i])

\* C7 as amended: both sides are normalised alike (string cast, then trimmed), but a
\* record's missing identifier is None and casts to "None" while a blank cell of the
\* sheet is NaN and casts to "nan": the two JoinKeys differ, and the record's row takes
\* the cells of the rows whose identifier reads "None", or blanks, never those of the
\* blank-identifier rows.
C7_MissingIdentifiersDiffer ==
    SheetMerged =>
        /\ \A l \in 1..Len(all_mols) :
              CasRn \in DOMAIN all_mols[l].props =>
                  Trimmed(all_mols[l].props[CasRn], sdf_df.rows[l].cas_norm.v)
        /\ \A i \in 1..Len(pharm_df.rows) :
              column(pharm_df, LigandCasRn)[i].t = "str" =>
                  Trimmed(column(pharm_df, LigandCasRn)[i].v, pharm_df.cas_norm[i].v)
        /\ \A l \in LigandsMissingId :
              /\ sdf_df.rows[l].cas_norm = StrCell(<< "N", "o", "n", "e" >>)
              /\ merged_full_df.rows[l].pharm =
                    IF \E i \in 1..Len(pharm_df.rows) :
                          pharm_df.cas_norm[i] = StrCell(<< "N", "o", "n", "e" >>)
                    THEN CellsOfGroup(StrCell(<< "N", "o", "n", "e" >>))
                    ELSE [c \in 1..Len(pharm_df.columns) |-> NaN]
        /\ \A i \in RowsBlankId :
              /\ pharm_df.cas_norm[i] = StrCell(<< "n", "a", "n" >>)
              /\ \A l \in LigandsMissingId : sdf_df.rows[l].cas_norm # pharm_df.cas_norm[i]

\* C7's case: the sheet is merged, a record lacks the identifier other records carry,
\* a row of the sheet has a blank identifier and another an identifier to trim.
C7_Witness ==
    /\ pc = "done"
    /\ SheetMerged
    /\ LigandsMissingId # {}
    /\ RowsBlankId # {}
    /\ \E l \in 1..Len(all_mols) :
          /\ CasRn \in DOMAIN all_mols[l].props
          /\ all_mols[l].props[CasRn] # sdf_df.rows[l].cas_norm.v

\* C9: with no "cas.rn" among the properties every JoinKey is null, the warning is
\* raised, and the full merged table is still shown, one row per record, every
\* pharmacology cell blank.
C9_NoIdentifierColumnDegrades ==
    (/\ pc \in {"done", "crashed"}
     /\ all_mols # << >>
     /\ CasRn \notin PropertyUniverse)
    => /\ \A l \in 1..Len(sdf_df.rows) : sdf_df.rows[l].cas_norm = None
       /\ "warning_cas_rn_not_found" \in status
       /\ shown_full # None
       /\ Len(shown_full.rows) = Len(all_mols)
       /\ \A n \in 1..Len(shown_full.rows) : \A c \in 1..Len(shown_full.rows[n].pharm) :
             isna(shown_full.rows[n].pharm[c])

\* The JoinKeys of the aggregated rows, in the order emitted.
EmittedKeys == [g \in 1..Len(pharm_agg.rows) |-> pharm_agg.rows[g].cas_norm.v]

\* C10 as claimed: the groups are emitted in the order in which each JoinKey first
\* occurs in the rows of the sheet.
C10_GroupsInFirstOccurrenceOrder ==
    SheetMerged =>
        EmittedKeys = FirstOccurrences([i \in 1..Len(pharm_df.rows) |-> pharm_df.cas_norm[i].v])

\* C10 as amended: the groups are emitted in ascending code-point order of their
\* JoinKey, one group per distinct JoinKey: rows of "64-17-5", "50-00-0", "64-17-5"
\* give "50-00-0" then "64-17-5".
C10_GroupsInSortedOrder ==
    /\ SheetMerged =>
          /\ Range(EmittedKeys) = {pharm_df.cas_norm[i].v : i \in 1..Len(pharm_df.rows)}
          /\ \A g \in 1..Len(EmittedKeys) : \A h \in 1..Len(EmittedKeys) :
                g < h => StrLess(EmittedKeys[g], EmittedKeys[h])
    /\ group_keys(<< StrCell(Cas64), StrCell(Cas50), StrCell(Cas64) >>) = << Cas50, Cas64 >>

\* C10's case: the rows of the sheet have JoinKeys "64-17-5", "50-00-0", "64-17-5".
C10_Witness ==
    /\ SheetMerged
    /\ Len(pharm_df.rows) = 3
    /\ [i \in 1..3 |-> pharm_df.cas_norm[i].v] = << Cas64, Cas50, Cas64 >>
    /\ EmittedKeys = << Cas50, Cas64 >>

====
